---- MODULE Spec2Model ----
(***************************************************************************)
(* Model of keyboard_madness (src/src/lib.rs) and of the way its binary    *)
(* (src/src/bin/keyboard_madness_runner.rs) constructs a Keyboard.         *)
(*                                                                         *)
(* A Rust &str / String is a sequence of characters; a character is a      *)
(* one-character TLA+ string, except the non-ASCII decimal digit U+0663,   *)
(* written "u0663".  A usize is a natural number below 2^64,               *)
(* written as its sequence of decimal digits, most significant first.      *)
(***************************************************************************)
EXTENDS Integers, Sequences, FiniteSets, TLC

VARIABLES position, selected_keys, overflow_checks, panicked, last, calls

vars == <<position, selected_keys, overflow_checks, panicked, last, calls>>

----------------------------------------------------------------------------
(* Characters and strings                                                  *)

NL == "\n"
NonAsciiDigit == "u0663"

AsciiDigits == <<"0", "1", "2", "3", "4", "5", "6", "7", "8", "9">>

IsAsciiDigit(c) == \E i \in 1..10 : AsciiDigits[i] = c

DigitValue(c) == (CHOOSE i \in 1..10 : AsciiDigits[i] = c) - 1

\* \d of the regex crate is Unicode-aware (any character of class Nd).
IsRegexDigit(c) == IsAsciiDigit(c) \/ c = NonAsciiDigit

RECURSIVE Concat(_)
Concat(ss) == IF ss = <<>> THEN <<>> ELSE Head(ss) \o Concat(Tail(ss))

\* str::split(','): the pieces between the commas, empty pieces included.
RECURSIVE Split(_)
Split(s) ==
    IF \A i \in 1..Len(s) : s[i] # ","
    THEN <<s>>
    ELSE LET i == CHOOSE k \in 1..Len(s) : s[k] = "," /\ \A j \in 1..(k - 1) : s[j] # ","
         IN <<SubSeq(s, 1, i - 1)>> \o Split(SubSeq(s, i + 1, Len(s)))

\* format!("{}", n) for n >= 0.
RECURSIVE FormatDec(_)
FormatDec(n) ==
    IF n < 10 THEN <<AsciiDigits[n + 1]>>
    ELSE Append(FormatDec(n \div 10), AsciiDigits[(n % 10) + 1])

----------------------------------------------------------------------------
(* usize: naturals below 2^64 as decimal digit sequences                   *)

RECURSIVE Strip(_)
Strip(a) == IF Len(a) > 1 /\ a[1] = 0 THEN Strip(Tail(a)) ELSE a

RECURSIVE ToBig(_)
ToBig(n) == IF n < 10 THEN <<n>> ELSE Append(ToBig(n \div 10), n % 10)

\* The k-th digit from the right (k >= 1), 0 beyond the most significant.
DigitAt(a, k) == IF k <= Len(a) THEN a[Len(a) - k + 1] ELSE 0

MaxOf(m, n) == IF m >= n THEN m ELSE n

BigLess(a, b) ==
    \/ Len(a) < Len(b)
    \/ /\ Len(a) = Len(b)
       /\ \E i \in 1..Len(a) : a[i] < b[i] /\ \A j \in 1..(i - 1) : a[j] = b[j]

RECURSIVE AddDigits(_, _, _, _, _)
AddDigits(a, b, k, carry, n) ==
    IF k > n THEN <<carry>>
    ELSE LET s == DigitAt(a, k) + DigitAt(b, k) + carry
         IN Append(AddDigits(a, b, k + 1, s \div 10, n), s % 10)

BigAdd(a, b) == Strip(AddDigits(a, b, 1, 0, MaxOf(Len(a), Len(b))))

RECURSIVE SubDigits(_, _, _, _, _)
SubDigits(a, b, k, borrow, n) ==
    IF k > n THEN <<>>
    ELSE LET d == DigitAt(a, k) - DigitAt(b, k) - borrow
         IN Append(SubDigits(a, b, k + 1, IF d < 0 THEN 1 ELSE 0, n),
                   IF d < 0 THEN d + 10 ELSE d)

\* a - b for a >= b.
BigSub(a, b) == Strip(SubDigits(a, b, 1, 0, Len(a)))

RECURSIVE ModFrom(_, _, _, _)
ModFrom(a, i, acc, m) ==
    IF i > Len(a) THEN acc ELSE ModFrom(a, i + 1, (acc * 10 + a[i]) % m, m)

BigMod(a, m) == ModFrom(a, 1, 0, m)

\* usize::MAX of a 64-bit target, 2^64 - 1.
USIZE_MAX == <<1, 8, 4, 4, 6, 7, 4, 4, 0, 7, 3, 7, 0, 9, 5, 5, 1, 6, 1, 5>>

UsizeModulus == BigAdd(USIZE_MAX, <<1>>)

Ok(v) == [ok |-> TRUE, val |-> v]
Err == [ok |-> FALSE]

\* usize - usize: with overflow checks an underflow panics, without them the
\* result wraps modulo 2^64.
UsizeSub(a, b, checks) ==
    IF ~BigLess(a, b) THEN Ok(BigSub(a, b))
    ELSE IF checks THEN Err
    ELSE Ok(BigSub(BigAdd(a, UsizeModulus), b))

\* usize + usize: likewise for an overflow.
UsizeAdd(a, b, checks) ==
    LET s == BigAdd(a, b)
    IN IF BigLess(s, UsizeModulus) THEN Ok(s)
       ELSE IF checks THEN Err
       ELSE Ok(BigSub(s, UsizeModulus))

ParseUsizeUnchecked(s) ==
    IF s = <<>> \/ \E i \in 1..Len(s) : ~IsAsciiDigit(s[i]) THEN Err
    ELSE Ok(Strip([i \in 1..Len(s) |-> DigitValue(s[i])]))

\* str::parse::<usize>() on the text a regex group captured: Err on the empty
\* string, on a character that is no ASCII digit and on a value above
\* usize::MAX.
ParseUsize(s) ==
    IF s = <<>> \/ \E i \in 1..Len(s) : ~IsAsciiDigit(s[i]) THEN Err
    ELSE LET v == Strip([i \in 1..Len(s) |-> DigitValue(s[i])])
         IN IF BigLess(USIZE_MAX, v) THEN Err ELSE Ok(v)

----------------------------------------------------------------------------
(* Instruction and its parser                                              *)

Codes == {"L", "R", "U", "D", "S", "_", "N"}

MoveKinds == {"Left", "Up", "Right", "Down"}

\* RE: ^(?P<instruction>L|R|U|D|S|_|N)(:(?P<count>\d*))?$
RegexMatches(s) ==
    /\ Len(s) >= 1
    /\ s[1] \in Codes
    /\ \/ Len(s) = 1
       \/ /\ s[2] = ":"
          /\ \A i \in 3..Len(s) : IsRegexDigit(s[i])

\* caps.name("count"): the group takes part in the match iff the ':' is there.
CountGroup(s) == IF Len(s) >= 2 THEN Ok(SubSeq(s, 3, Len(s))) ELSE Err

From(s) ==
    IF ~RegexMatches(s) THEN [kind |-> "Unknown"]
    ELSE LET g     == CountGroup(s)
             p     == ParseUsize(g.val)
             count == IF ~g.ok THEN <<1>> ELSE IF p.ok THEN p.val ELSE <<1>>
         IN CASE s[1] = "L" -> [kind |-> "Left", count |-> count]
              [] s[1] = "R" -> [kind |-> "Right", count |-> count]
              [] s[1] = "U" -> [kind |-> "Up", count |-> count]
              [] s[1] = "D" -> [kind |-> "Down", count |-> count]
              [] s[1] = "_" -> [kind |-> "Space"]
              [] s[1] = "N" -> [kind |-> "NewLine"]
              [] s[1] = "S" -> [kind |-> "Select"]
              [] OTHER -> [kind |-> "Unknown"]

----------------------------------------------------------------------------
(* Keyboard                                                                *)

W == 10
H == 4

KEYS ==
    << <<"1", "2", "3", "4", "5", "6", "7", "8", "9", "0">>,
       <<"Q", "W", "E", "R", "T", "Y", "U", "I", "O", "P">>,
       <<"A", "S", "D", "F", "G", "H", "J", "K", "L", ";">>,
       <<"Z", "X", "C", "V", "B", "N", "M", ",", ".", "?">> >>

\* A session value: the fields of Keyboard that change, and whether the
\* process has panicked.  position holds small naturals (see StartPositions).
Keyboard(pos, keys) == [position |-> pos, selected_keys |-> keys, panicked |-> FALSE]

Panic(kb) == [kb EXCEPT !.panicked = TRUE]

\* update_position: pos is a pair of usize values.
update_position_reset(kb, pos) ==
    [kb EXCEPT !.position = <<BigMod(pos[1], W), BigMod(pos[2], H)>>, !.selected_keys = <<>>]

update_position_one_modulus(kb, pos) ==
    [kb EXCEPT !.position = <<BigMod(pos[1], W), BigMod(pos[2], W)>>]

update_position(kb, pos) ==
    [kb EXCEPT !.position = <<BigMod(pos[1], W), BigMod(pos[2], H)>>]

selected_key_replace(kb, key) == [kb EXCEPT !.selected_keys = <<key>>]

selected_key(kb, key) == [kb EXCEPT !.selected_keys = Append(@, key)]

\* keyboard_layout[y][x]: an index outside the array panics.
KeyAt(x, y) == IF y < Len(KEYS) /\ x < Len(KEYS[y + 1]) THEN Ok(KEYS[y + 1][x + 1]) ELSE Err

execute(kb, instruction, checks) ==
    LET x == kb.position[1]
        y == kb.position[2]
        moved(r, horizontal) ==
            IF ~r.ok THEN Panic(kb)
            ELSE IF horizontal THEN update_position(kb, <<r.val, ToBig(y)>>)
            ELSE update_position(kb, <<ToBig(x), r.val>>)
    IN CASE instruction.kind = "Left" ->
                moved(UsizeSub(ToBig(x), instruction.count, checks), TRUE)
         [] instruction.kind = "Up" ->
                moved(UsizeSub(ToBig(y), instruction.count, checks), FALSE)
         [] instruction.kind = "Right" ->
                moved(UsizeAdd(ToBig(x), instruction.count, checks), TRUE)
         [] instruction.kind = "Down" ->
                moved(UsizeAdd(ToBig(y), instruction.count, checks), FALSE)
         [] instruction.kind = "Space" -> selected_key(kb, " ")
         [] instruction.kind = "NewLine" -> selected_key(kb, NL)
         [] instruction.kind = "Select" ->
                LET k == KeyAt(x, y) IN IF k.ok THEN selected_key(kb, k.val) ELSE Panic(kb)
         [] OTHER -> kb

\* split(',').map(into).for_each(execute): lazy, so a panic ends the run at
\* the token that panics.
RECURSIVE RunTokens(_, _, _)
RunTokens(kb, tokens, checks) ==
    IF tokens = <<>> \/ kb.panicked THEN kb
    ELSE RunTokens(execute(kb, From(Head(tokens)), checks), Tail(tokens), checks)

RECURSIVE UntilUnknown(_)
UntilUnknown(tokens) ==
    IF tokens = <<>> \/ From(Head(tokens)).kind = "Unknown" THEN <<>>
    ELSE <<Head(tokens)>> \o UntilUnknown(Tail(tokens))

run_until_unknown(kb, instructions, checks) ==
    RunTokens(kb, UntilUnknown(Split(instructions)), checks)

clear_nothing(kb) == kb

clear(kb) == [kb EXCEPT !.selected_keys = <<>>]

run_on_empty(kb, instructions, checks) == RunTokens(clear(kb), Split(instructions), checks)

run(kb, instructions, checks) == RunTokens(kb, Split(instructions), checks)

\* Display::fmt: the characters of selected_keys collected into a String.
fmt(kb) == [i \in 1..Len(kb.selected_keys) |-> kb.selected_keys[i]]

find_position_or_origin(keyboard_layout, key) ==
    IF \E y \in 1..Len(keyboard_layout) : \E x \in 1..Len(keyboard_layout[y]) :
            keyboard_layout[y][x] = key
    THEN Ok(CHOOSE p \in (0..(W - 1)) \X (0..(H - 1)) : keyboard_layout[p[2] + 1][p[1] + 1] = key)
    ELSE Ok(<<0, 0>>)

\* row.iter().position(|&ch| ch == key), scanning from column x.
RECURSIVE RowPosition(_, _, _)
RowPosition(row, key, x) ==
    IF x >= Len(row) THEN Err
    ELSE IF row[x + 1] = key THEN Ok(x)
    ELSE RowPosition(row, key, x + 1)

\* The for loop of find_position from row y on.
RECURSIVE FindFromRow(_, _, _)
FindFromRow(keyboard_layout, key, y) ==
    IF y >= Len(keyboard_layout) THEN Err
    ELSE LET x == RowPosition(keyboard_layout[y + 1], key, 0)
         IN IF x.ok THEN Ok(<<x.val, y>>) ELSE FindFromRow(keyboard_layout, key, y + 1)

\* A scan down each column in turn.
find_position_by_columns(keyboard_layout, key) ==
    LET cols == {x \in 0..(W - 1) : \E y \in 0..(H - 1) : keyboard_layout[y + 1][x + 1] = key}
    IN IF cols = {} THEN Err
       ELSE LET x == CHOOSE c \in cols : \A d \in cols : c <= d
                rows == {r \in 0..(H - 1) : keyboard_layout[r + 1][x + 1] = key}
                y == CHOOSE r \in rows : \A q \in rows : r <= q
            IN Ok(<<x, y>>)

find_position(keyboard_layout, key) == FindFromRow(keyboard_layout, key, 0)

\* The first loop of generate_instructions: the HashMap from each character
\* of the text that is on the keyboard to its position.
RECURSIVE CharPositions(_, _, _)
CharPositions(keyboard_layout, text, map) ==
    IF text = <<>> THEN map
    ELSE LET ch == Head(text)
         IN IF ch \in DOMAIN map THEN CharPositions(keyboard_layout, Tail(text), map)
            ELSE LET pos == find_position(keyboard_layout, ch)
                 IN IF ~pos.ok THEN CharPositions(keyboard_layout, Tail(text), map)
                    ELSE CharPositions(keyboard_layout, Tail(text),
                                       [c \in (DOMAIN map) \cup {ch} |->
                                            IF c = ch THEN pos.val ELSE map[c]])

Abs(n) == IF n < 0 THEN -n ELSE n

\* match dx.cmp(&0): the horizontal move over dx columns, with its comma.
HorizontalMoveSwapped(dx) ==
    IF dx > 0 THEN <<"L", ":">> \o FormatDec(dx) \o <<",">>
    ELSE IF dx < 0 THEN <<"R", ":">> \o FormatDec(Abs(dx)) \o <<",">>
    ELSE <<>>

HorizontalMoveAlways(dx) ==
    IF dx >= 0 THEN <<"R", ":">> \o FormatDec(dx) \o <<",">>
    ELSE <<"L", ":">> \o FormatDec(Abs(dx)) \o <<",">>

HorizontalMove(dx) ==
    IF dx > 0 THEN <<"R", ":">> \o FormatDec(dx) \o <<",">>
    ELSE IF dx < 0 THEN <<"L", ":">> \o FormatDec(Abs(dx)) \o <<",">>
    ELSE <<>>

\* match dy.cmp(&0): the vertical move over dy rows, with its comma.
VerticalMoveDownOnly(dy) ==
    IF dy = 0 THEN <<>> ELSE <<"D", ":">> \o FormatDec((dy + H) % H) \o <<",">>

VerticalMove(dy) ==
    IF dy > 0 THEN <<"D", ":">> \o FormatDec(dy) \o <<",">>
    ELSE IF dy < 0 THEN <<"U", ":">> \o FormatDec(Abs(dy)) \o <<",">>
    ELSE <<>>

\* The second loop: the instructions, each followed by a comma.
RECURSIVE Emit(_, _, _)
Emit(text, pos, map) ==
    IF text = <<>> THEN <<>>
    ELSE LET ch == Head(text)
         IN IF ch = " " THEN <<"_", ",">> \o Emit(Tail(text), pos, map)
            ELSE IF ch = NL THEN <<"N", ",">> \o Emit(Tail(text), pos, map)
            ELSE IF ch \in DOMAIN map
            THEN LET target == map[ch]
                     dx == target[1] - pos[1]
                     dy == target[2] - pos[2]
                 IN HorizontalMove(dx) \o VerticalMove(dy) \o <<"S", ",">>
                        \o Emit(Tail(text), target, map)
            ELSE Emit(Tail(text), pos, map)

PopNothing(s) == s

\* String::pop: drops the last character, if there is one.
Pop(s) == IF s = <<>> THEN s ELSE SubSeq(s, 1, Len(s) - 1)

generate_instructions(kb, text) ==
    Pop(Emit(text, kb.position, CharPositions(KEYS, text, <<>>)))

----------------------------------------------------------------------------
(* Inputs                                                                  *)

\* Largest step count that is written out in full in an input token.
MaxCount == 3
\* How many columns and rows beyond the grid a caller-supplied start may lie.
MaxStart == 1
\* Longest text handed to generate_instructions, examples aside.
MaxTextLen == 2
\* Most tokens of an enumerated instruction string, examples aside.
MaxTokens == 2
\* Longest enumerated token of the parser specification.
MaxTokenLen == 3
\* Most calls on one session.
MaxCalls == 3
\* Largest number of whole turns around the grid in an enumerated position.
MaxWraps == 2

Strings(S, n) == UNION {[1..k -> S] : k \in 0..n}

DecString(a) == [i \in 1..Len(a) |-> AsciiDigits[a[i] + 1]]

RECURSIVE Join(_)
Join(tokens) ==
    IF Len(tokens) = 1 THEN Head(tokens) ELSE Head(tokens) \o <<",">> \o Join(Tail(tokens))

CountStrings ==
    {FormatDec(n) : n \in 0..MaxCount}
        \cup {FormatDec(W), <<"0", "2">>, DecString(USIZE_MAX), DecString(UsizeModulus)}

MoveSuffixes == {<<>>, <<":">>, <<":", NonAsciiDigit>>} \cup {<<":">> \o c : c \in CountStrings}

MoveTokens == {<<c>> \o s : c \in {"L", "R", "U", "D"}, s \in MoveSuffixes}

EmitTokens == {<<c>> \o s : c \in {"S", "_", "N"}, s \in {<<>>, <<":", "5">>}}

Testing == <<"T", "e", "s", "t", "i", "n", "g">>

BadTokens ==
    {<<>>, <<"l">>, Testing, <<"L", "1">>, <<":", "1">>, <<"L", ":", "1", "x">>,
     <<"L", ":", "-", "1">>, <<"S", " ">>, <<" ", "S">>, <<"S", NL>>}

Tokens == MoveTokens \cup EmitTokens \cup BadTokens

\* The tokens that enumerated instruction strings are joined from.
JoinTokens == {<<"S">>, <<"_">>, <<"L">>, <<"U", ":", "1">>, <<"R", ":", "3">>, <<"D">>, <<"x">>, <<>>}

\* keyboard.run("R,S,U,L:3,S,D,R:6,S,S,U,S") and the other strings of the tests.
ExampleInstructions ==
    {Join(<<<<"R">>, <<"S">>, <<"U">>, <<"L", ":", "3">>, <<"S">>, <<"D">>, <<"R", ":", "6">>,
            <<"S">>, <<"S">>, <<"U">>, <<"S">>>>),
     Join(<<<<"S">>, Testing, Testing, Testing, <<"S">>>>),
     Join(<<<<"S">>, <<"N">>, <<"S">>>>)}

CallInstructions ==
    Tokens \cup {Join(ts) : ts \in Strings(JoinTokens, MaxTokens) \ {<<>>}} \cup ExampleInstructions

TextChars == {"1", ",", "?", " ", NL, "h"}

HELLO == <<"H", "E", "L", "L", "O">>

ExampleTexts == {HELLO, <<"?", " ", "1", "?">>}

CallTexts == Strings(TextChars, MaxTextLen) \cup ExampleTexts

SessionInstructions ==
    {<<"S">>, <<"_">>, <<"N">>, <<"S", ":", "5">>, <<"_", ":", "5">>, <<"L">>, <<"R">>, <<"U">>, <<"D">>,
     <<"L", ":", "3">>, <<"R", ":">> \o DecString(USIZE_MAX), Testing, <<>>,
     Join(<<<<"S">>, Testing, <<"S">>>>)}

SessionTexts == {<<>>, <<"h">>, <<"?", " ">>, HELLO}

\* Arguments of update_position: pairs of usize values.
SessionPositions ==
    {<<ToBig(4), ToBig(2)>>, <<ToBig(0), ToBig(0)>>, <<ToBig(W + 4), ToBig(H + 2)>>,
     <<USIZE_MAX, USIZE_MAX>>}

\* Keyboard { position: (x_position, y_position), .. }: the binary stores the
\* caller's numbers as they are.
RECURSIVE TimesDigits(_, _, _, _)
TimesDigits(a, n, k, carry) ==
    IF k > Len(a) THEN ToBig(carry)
    ELSE LET p == DigitAt(a, k) * n + carry
         IN Append(TimesDigits(a, n, k + 1, p \div 10), p % 10)

\* a * n for a small n.
Times(a, n) == Strip(TimesDigits(a, n, 1, 0))

\* The largest k with W * k <= usize::MAX.
TopWraps == <<1, 8, 4, 4, 6, 7, 4, 4, 0, 7, 3, 7, 0, 9, 5, 5, 1, 6, 1>>

\* (x + W*k, y + H*k) as usize values.
Wrapped(x, y, k) == <<BigAdd(ToBig(x), Times(k, W)), BigAdd(ToBig(y), Times(k, H))>>

Fits(pos) == ~BigLess(USIZE_MAX, pos[1]) /\ ~BigLess(USIZE_MAX, pos[2])

WrapCounts == {ToBig(k) : k \in 0..MaxWraps} \cup {TopWraps}

CallPositions ==
    {pos \in {Wrapped(x, y, k) : x \in 0..(W - 1), y \in 0..(H - 1), k \in WrapCounts} :
        Fits(pos)}

StartPositions == (0..(W - 1 + MaxStart)) \X (0..(H - 1 + MaxStart))

----------------------------------------------------------------------------
(* State machine                                                           *)

NoCall == [op |-> "new", arg |-> <<>>, pre_position |-> <<0, 0>>, pre_keys |-> <<>>, ret |-> <<>>]

Call(op, arg, ret) ==
    [op |-> op, arg |-> arg, pre_position |-> position, pre_keys |-> selected_keys, ret |-> ret]

Self == Keyboard(position, selected_keys)

Becomes(kb) ==
    /\ position' = kb.position
    /\ selected_keys' = kb.selected_keys
    /\ panicked' = kb.panicked

\* Keyboard { keyboard_layout: KEYS, position, selected_keys: &mut vec![] },
\* in a build with or without overflow checks.
Init ==
    /\ position \in StartPositions
    /\ selected_keys = <<>>
    /\ overflow_checks \in BOOLEAN
    /\ panicked = FALSE
    /\ last = NoCall
    /\ calls = 0

Run(instructions) ==
    /\ ~panicked
    /\ Becomes(run(Self, instructions, overflow_checks))
    /\ last' = Call("run", instructions, <<>>)
    /\ calls' = calls + 1
    /\ UNCHANGED overflow_checks

UpdatePosition(pos) ==
    /\ ~panicked
    /\ Becomes(update_position(Self, pos))
    /\ last' = Call("update_position", pos, <<>>)
    /\ calls' = calls + 1
    /\ UNCHANGED overflow_checks

Clear ==
    /\ ~panicked
    /\ Becomes(clear(Self))
    /\ last' = Call("clear", <<>>, <<>>)
    /\ calls' = calls + 1
    /\ UNCHANGED overflow_checks

\* keyboard.to_string()
Display ==
    /\ ~panicked
    /\ last' = Call("to_string", <<>>, fmt(Self))
    /\ calls' = calls + 1
    /\ UNCHANGED <<position, selected_keys, overflow_checks, panicked>>

GenerateInstructionsAndRun(text) ==
    /\ ~panicked
    /\ LET instructions == generate_instructions(Self, text)
       IN /\ Becomes(run(Self, instructions, overflow_checks))
          /\ last' = Call("generate_instructions", text, instructions)
    /\ calls' = calls + 1
    /\ UNCHANGED overflow_checks

GenerateInstructions(text) ==
    /\ ~panicked
    /\ last' = Call("generate_instructions", text, generate_instructions(Self, text))
    /\ calls' = calls + 1
    /\ UNCHANGED <<position, selected_keys, overflow_checks, panicked>>

\* let instructions = keyboard.generate_instructions(text);
\* keyboard.run(&instructions);
GenerateAndRun(text) ==
    /\ ~panicked
    /\ LET instructions == generate_instructions(Self, text)
       IN /\ Becomes(run(Self, instructions, overflow_checks))
          /\ last' = Call("generate_and_run", text, instructions)
    /\ calls' = calls + 1
    /\ UNCHANGED overflow_checks

\* Sequences of calls on one session.
Next ==
    \/ \E instructions \in SessionInstructions : calls < MaxCalls /\ Run(instructions)
    \/ \E pos \in SessionPositions : calls < MaxCalls /\ UpdatePosition(pos)
    \/ calls < MaxCalls /\ Clear
    \/ calls < MaxCalls /\ Display
    \/ \E text \in SessionTexts : calls < MaxCalls /\ GenerateInstructions(text)

Spec == Init /\ [][Next]_vars

\* One call on a newly constructed session.
NextCall ==
    \/ \E instructions \in CallInstructions : calls = 0 /\ Run(instructions)
    \/ \E text \in CallTexts : calls = 0 /\ GenerateInstructions(text)
    \/ \E text \in CallTexts : calls = 0 /\ GenerateAndRun(text)
    \/ \E pos \in CallPositions : calls = 0 /\ UpdatePosition(pos)

SpecCall == Init /\ [][NextCall]_vars

\* The parser alone: Instruction::from on one token.
ParserAlphabet == Codes \cup {":", "0", "1", "l", "-", NonAsciiDigit}

ParserTokens == Strings(ParserAlphabet, MaxTokenLen) \cup Tokens

InitParser ==
    /\ position = <<4, 2>>
    /\ selected_keys = <<>>
    /\ overflow_checks = TRUE
    /\ panicked = FALSE
    /\ last \in {[NoCall EXCEPT !.op = "token", !.arg = t] : t \in ParserTokens}
    /\ calls = 0

FromStr ==
    /\ last.op = "token"
    /\ last' = Call("from", last.arg, From(last.arg))
    /\ calls' = calls + 1
    /\ UNCHANGED <<position, selected_keys, overflow_checks, panicked>>

NextParser == FromStr

SpecParser == InitParser /\ [][NextParser]_vars

\* Token by token: after generate_instructions(text) on a new session, a
\* caller runs tokens of its own choice one at a time, as long as the output
\* is a prefix of text, and for no more tokens than generate_instructions
\* returned.  last keeps the generate_instructions call; calls - 1 is the
\* number of tokens run.
ShortestStarts == {<<4, 2>>, <<0, 0>>, <<9, 3>>}

ShortestTexts ==
    {<<>>, <<"1">>, <<" ">>, <<"1", "1">>, <<"1", "2">>, <<"1", "Q">>, <<"?", "1">>,
     <<NL, "?">>, <<"G", " ">>}

ShortestTokens ==
    {<<c, ":">> \o FormatDec(n) : c \in {"L", "R"}, n \in 0..(W - 1)}
        \cup {<<c, ":">> \o FormatDec(n) : c \in {"U", "D"}, n \in 0..(H - 1)}
        \cup {<<"S">>, <<"_">>, <<"N">>, <<>>}

IsPrefix(s, t) == Len(s) <= Len(t) /\ SubSeq(t, 1, Len(s)) = s

InitShortest == Init /\ position \in ShortestStarts

MayRunToken ==
    /\ ~panicked
    /\ last.op = "generate_instructions"
    /\ calls - 1 < Len(Split(last.ret))
    /\ IsPrefix(selected_keys, last.arg)

RunToken(token) ==
    /\ Becomes(run(Self, token, overflow_checks))
    /\ calls' = calls + 1
    /\ UNCHANGED <<last, overflow_checks>>

NextShortest ==
    \/ \E text \in ShortestTexts : calls = 0 /\ GenerateInstructions(text)
    \/ MayRunToken /\ \E token \in ShortestTokens : RunToken(token)

SpecShortest == InitShortest /\ [][NextShortest]_vars

\* Lookups on keyboards whose layout holds a character in several cells.
Replaced(keyboard_layout, x, y, ch) == [keyboard_layout EXCEPT ![y + 1][x + 1] = ch]

LayoutChars == {"1", "G", "?", "#"}

Layouts ==
    {KEYS} \cup {[y \in 1..H |-> [x \in 1..W |-> "1"]]}
        \cup {Replaced(KEYS, x, y, ch) : x \in 0..(W - 1), y \in 0..(H - 1), ch \in LayoutChars}

FindKeys == LayoutChars \cup {"Q", " "}

FindTexts == Strings(FindKeys, MaxTextLen)

\* Keyboard { keyboard_layout, .. }
InitFind ==
    /\ position = <<4, 2>>
    /\ selected_keys = <<>>
    /\ overflow_checks = TRUE
    /\ panicked = FALSE
    /\ last \in {[NoCall EXCEPT !.op = "layout", !.arg = l] : l \in Layouts}
    /\ calls = 0

FindPosition(key) ==
    /\ last.op = "layout"
    /\ last' = Call("find_position", <<last.arg, key>>, find_position(last.arg, key))
    /\ calls' = calls + 1
    /\ UNCHANGED <<position, selected_keys, overflow_checks, panicked>>

\* The first loop of generate_instructions(text).
MemoPositions(text) ==
    /\ last.op = "layout"
    /\ last' = Call("char_positions", <<last.arg, text>>, CharPositions(last.arg, text, <<>>))
    /\ calls' = calls + 1
    /\ UNCHANGED <<position, selected_keys, overflow_checks, panicked>>

NextFind ==
    \/ \E key \in FindKeys : FindPosition(key)
    \/ \E text \in FindTexts : MemoPositions(text)

SpecFind == InitFind /\ [][NextFind]_vars

----------------------------------------------------------------------------
(* Properties                                                              *)

InRange(pos) == pos[1] < W /\ pos[2] < H

GridChars == {KEYS[y][x] : x \in 1..W, y \in 1..H}

\* A text of grid characters, spaces and newlines only.
CleanText(text) == \A i \in 1..Len(text) : text[i] \in GridChars \cup {" ", NL}

\* The last call was run() on the single token of kind k.
RanOne(k) == last.op = "run" /\ From(last.arg).kind = k

\* C1: round trip.  From an in-range start, generate_instructions(text)
\* followed by run() of its result appends exactly text to the output
\* buffer, for every text of grid characters, spaces and newlines, the empty
\* text included, and does not panic.
C1_RoundTrip ==
    (last.op = "generate_and_run" /\ InRange(last.pre_position) /\ CleanText(last.arg))
        => (~panicked /\ selected_keys = last.pre_keys \o last.arg)

C1_Witness ==
    /\ last.op = "generate_and_run"
    /\ last.pre_position = <<0, 0>>
    /\ last.arg = <<",", "1">>
    /\ selected_keys = <<",", "1">>
    /\ position = <<0, 0>>

\* C2: MoveLeft(n) from an in-range x, n > x included, sets x to
\* (x - n) mod W over the integers, leaves y unchanged and does not abort.
C2_MoveLeftWraps ==
    (RanOne("Left") /\ InRange(last.pre_position))
        => /\ ~panicked
           /\ position = <<(last.pre_position[1] - BigMod(From(last.arg).count, W)) % W,
                           last.pre_position[2]>>

\* C3: run() is total: from an in-range position it applies every token and
\* completes without aborting, whatever the instruction string.
C3_RunTotal == (last.op = "run" /\ InRange(last.pre_position)) => ~panicked

\* C4: in every reachable state of a session, construction with a
\* caller-supplied position included, 0 <= x < W and 0 <= y < H.
C4_PositionInRange == InRange(position)

\* C5: MoveUp(n) from an in-range y, n > y included, sets y to
\* (y - n) mod H over the integers, leaves x unchanged and does not abort.
C5_MoveUpWraps ==
    (RanOne("Up") /\ InRange(last.pre_position))
        => /\ ~panicked
           /\ position = <<last.pre_position[1],
                           (last.pre_position[2] - BigMod(From(last.arg).count, H)) % H>>

\* C6: from an in-range position and for every step count n >= 0,
\* MoveRight(n) sets x to (x + n) mod W with y unchanged and MoveDown(n) sets
\* y to (y + n) mod H with x unchanged.
C6_MoveRightDownWraps ==
    /\ (RanOne("Right") /\ InRange(last.pre_position))
        => /\ ~panicked
           /\ position = <<(last.pre_position[1] + BigMod(From(last.arg).count, W)) % W,
                           last.pre_position[2]>>
    /\ (RanOne("Down") /\ InRange(last.pre_position))
        => /\ ~panicked
           /\ position = <<last.pre_position[1],
                           (last.pre_position[2] + BigMod(From(last.arg).count, H)) % H>>

\* C7: S appends exactly the grid character at the current (in-range)
\* position to the end of the output buffer, _ exactly ' ' and N exactly
\* '\n'; all three leave the position unchanged, with or without a ':COUNT'
\* suffix.
C7_EmitAppendsOne ==
    /\ RanOne("Space")
        => ~panicked /\ position = last.pre_position
              /\ selected_keys = Append(last.pre_keys, " ")
    /\ RanOne("NewLine")
        => ~panicked /\ position = last.pre_position
              /\ selected_keys = Append(last.pre_keys, NL)
    /\ (RanOne("Select") /\ InRange(last.pre_position))
        => ~panicked /\ position = last.pre_position
              /\ selected_keys =
                    Append(last.pre_keys,
                           KEYS[last.pre_position[2] + 1][last.pre_position[1] + 1])

C7_Witness ==
    /\ last.op = "run"
    /\ last.arg = <<"S", ":", "5">>
    /\ last.pre_position = <<4, 2>>
    /\ last.pre_keys = <<"G">>
    /\ selected_keys = <<"G", "G">>
    /\ position = <<4, 2>>

IsKnown(token) == From(token).kind # "Unknown"

\* C8: a run leaves the position and the output buffer that the same run
\* with every unrecognized or empty token removed leaves, and a run of
\* unrecognized tokens only changes neither.
C8_UnknownTokensAreNoOps ==
    last.op = "run"
        => LET tokens == Split(last.arg)
               kb == RunTokens(Keyboard(last.pre_position, last.pre_keys),
                               SelectSeq(tokens, IsKnown), overflow_checks)
           IN /\ position = kb.position
              /\ selected_keys = kb.selected_keys
              /\ panicked = kb.panicked
              /\ (\A i \in 1..Len(tokens) : ~IsKnown(tokens[i]))
                    => /\ position = last.pre_position
                       /\ selected_keys = last.pre_keys
                       /\ ~panicked

C8_Witness ==
    /\ last.op = "run"
    /\ last.arg = Join(<<<<"S">>, Testing, Testing, Testing, <<"S">>>>)
    /\ last.pre_position = <<4, 2>>
    /\ selected_keys = <<"G", "G">>
    /\ position = <<4, 2>>

\* token := code [':' digits], digits := digit+ (any decimal digit).
GrammarToken(s) ==
    /\ Len(s) >= 1
    /\ s[1] \in {"L", "R", "U", "D", "S", "N", "_"}
    /\ \/ Len(s) = 1
       \/ /\ Len(s) >= 3
          /\ s[2] = ":"
          /\ \A i \in 3..Len(s) : IsRegexDigit(s[i])

\* C9: the parser yields an operation other than NoOp exactly for the tokens
\* of the grammar code [':' digits] with one or more digits; every other
\* string ('L:', trailing text, lowercase, the empty token) yields NoOp.
C9_ParserGrammar ==
    last.op = "from" => (last.ret.kind # "Unknown" <=> GrammarToken(last.arg))

KindOfCode(c) ==
    CASE c = "L" -> "Left" [] c = "R" -> "Right" [] c = "U" -> "Up" [] c = "D" -> "Down"

\* C10: for a code in L/R/U/D, the bare token has count 1; CODE:COUNT whose
\* COUNT is a decimal number that fits the integer type has exactly that
\* count (CODE:0 has count 0); CODE:COUNT whose digits do not parse (too
\* large, or not ASCII) is still that move, with count 1.
C10_StepCount ==
    (/\ last.op = "from"
     /\ GrammarToken(last.arg)
     /\ last.arg[1] \in {"L", "R", "U", "D"})
        => LET digits == SubSeq(last.arg, 3, Len(last.arg))
               ascii == \A i \in 1..Len(digits) : IsAsciiDigit(digits[i])
               value == Strip([i \in 1..Len(digits) |-> DigitValue(digits[i])])
           IN /\ last.ret.kind = KindOfCode(last.arg[1])
              /\ last.ret.count =
                    IF Len(last.arg) = 1 THEN <<1>>
                    ELSE IF ascii /\ ~BigLess(USIZE_MAX, value) THEN value
                    ELSE <<1>>

C10_Witness ==
    /\ last.op = "from"
    /\ last.arg = <<"R", ":">> \o DecString(UsizeModulus)
    /\ last.ret = [kind |-> "Right", count |-> <<1>>]

\* The cell of the reference grid that holds ch (its characters are distinct).
GridPos(ch) == CHOOSE p \in (0..(W - 1)) \X (0..(H - 1)) : KEYS[p[2] + 1][p[1] + 1] = ch

\* The tokens of the walk over text with a simulated position: '_', 'N', or
\* for a grid character the horizontal move, the vertical move and 'S'.
RECURSIVE WalkTokens(_, _)
WalkTokens(text, pos) ==
    IF text = <<>> THEN <<>>
    ELSE LET ch == Head(text)
         IN IF ch = " " THEN <<<<"_">>>> \o WalkTokens(Tail(text), pos)
            ELSE IF ch = NL THEN <<<<"N">>>> \o WalkTokens(Tail(text), pos)
            ELSE IF ch \in GridChars
            THEN LET t == GridPos(ch)
                     dx == t[1] - pos[1]
                     dy == t[2] - pos[2]
                     h == IF dx > 0 THEN <<<<"R", ":">> \o FormatDec(dx)>>
                          ELSE IF dx < 0 THEN <<<<"L", ":">> \o FormatDec(-dx)>>
                          ELSE <<>>
                     v == IF dy > 0 THEN <<<<"D", ":">> \o FormatDec(dy)>>
                          ELSE IF dy < 0 THEN <<<<"U", ":">> \o FormatDec(-dy)>>
                          ELSE <<>>
                 IN h \o v \o <<<<"S">>>> \o WalkTokens(Tail(text), t)
            ELSE WalkTokens(Tail(text), pos)

JoinAll(tokens) == IF tokens = <<>> THEN <<>> ELSE Join(tokens)

\* C11: for every text and in-range start, generate_instructions returns
\* exactly the comma-join (no leading, doubled or trailing separator) of the
\* tokens of the walk over the text.
C11_CommaJoinOfWalk ==
    (last.op = "generate_instructions" /\ InRange(last.pre_position))
        => last.ret = JoinAll(WalkTokens(last.arg, last.pre_position))

\* HELLO from (4,2) gives R:1,S,L:3,U:1,S,R:6,D:1,S,S,U:1,S.
C11_Witness ==
    /\ last.op = "generate_instructions"
    /\ last.pre_position = <<4, 2>>
    /\ last.arg = HELLO
    /\ last.ret = <<"R", ":", "1", ",", "S", ",", "L", ":", "3", ",", "U", ":", "1", ",",
                    "S", ",", "R", ":", "6", ",", "D", ":", "1", ",", "S", ",", "S", ",",
                    "U", ":", "1", ",", "S">>

OnGridOrBlank(ch) == ch \in GridChars \cup {" ", NL}

\* C12: characters that are neither on the grid nor space nor newline are
\* dropped: from an in-range start, running the synthesized instructions
\* appends the text with exactly those characters deleted, and neither the
\* synthesis nor the run fails, whatever the text.
C12_AbsentCharsDropped ==
    (last.op = "generate_and_run" /\ InRange(last.pre_position))
        => /\ ~panicked
           /\ selected_keys = last.pre_keys \o SelectSeq(last.arg, OnGridOrBlank)
           /\ (\A i \in 1..Len(last.arg) : ~OnGridOrBlank(last.arg[i])) => last.ret = <<>>

C12_Witness ==
    /\ last.op = "generate_and_run"
    /\ last.pre_position = <<4, 2>>
    /\ last.arg = <<"?", "h">>
    /\ last.ret = <<"R", ":", "5", ",", "D", ":", "1", ",", "S">>
    /\ selected_keys = <<"?">>
    /\ position = <<9, 3>>

\* C13: generate_instructions returns a shortest instruction sequence: from
\* an in-range start, no run of fewer tokens than it returned reproduces the
\* text (of grid characters, spaces and newlines).
C13_Shortest ==
    (last.op = "generate_instructions" /\ calls >= 2 /\ selected_keys = last.arg)
        => calls - 1 >= Len(Split(last.ret))

\* A run of exactly as many tokens as were generated reproduces the text.
C13_Witness ==
    /\ last.op = "generate_instructions"
    /\ last.arg = <<"?", "1">>
    /\ last.pre_position = <<4, 2>>
    /\ calls - 1 = Len(Split(last.ret))
    /\ calls - 1 = 6
    /\ selected_keys = last.arg
    /\ ~panicked

\* C14: after clear() the session renders as the empty string, whatever
\* calls came before; a run() that follows clear() leaves the buffer a run on
\* an empty buffer would leave; to_string() returns the buffer and changes
\* neither the buffer nor the position.
C14_ClearThenRender ==
    [][/\ last'.op = "clear" =>
            /\ selected_keys' = <<>>
            /\ fmt(Keyboard(position', selected_keys')) = <<>>
            /\ ~panicked'
       /\ (last.op = "clear" /\ last'.op = "to_string") => last'.ret = <<>>
       /\ (last.op = "clear" /\ last'.op = "run") =>
            selected_keys' =
                run(Keyboard(position, <<>>), last'.arg, overflow_checks).selected_keys
       /\ last'.op = "to_string" =>
            /\ last'.ret = selected_keys
            /\ selected_keys' = selected_keys
            /\ position' = position]_vars

\* clear() has emptied a buffer of two or more characters.
C14_Witness ==
    /\ last.op = "clear"
    /\ Len(last.pre_keys) >= 2
    /\ selected_keys = <<>>
    /\ calls = 3

\* C15: update_position changes the position and leaves the output buffer as
\* it was; clear empties the output buffer and leaves the position as it was;
\* neither fails, whatever the session's position and buffer are.
C15_IndependentFrames ==
    /\ last.op = "update_position" =>
        /\ selected_keys = last.pre_keys
        /\ position = <<BigMod(last.arg[1], W), BigMod(last.arg[2], H)>>
        /\ ~panicked
    /\ last.op = "clear" =>
        /\ position = last.pre_position
        /\ selected_keys = <<>>
        /\ ~panicked

\* update_position has moved a session whose buffer was not empty.
C15_Witness ==
    /\ last.op = "update_position"
    /\ last.pre_keys # <<>>
    /\ position # last.pre_position
    /\ selected_keys = last.pre_keys

WrappedBy == [x \in 0..(W - 1), y \in 0..(H - 1), k \in WrapCounts |-> Wrapped(x, y, k)]

\* C16: update_position((x + W*k, y + H*k)) leaves the position (x, y), for
\* every x < W, y < H and every k for which both coordinates are usize values.
C16_ModularInvariance ==
    last.op = "update_position" =>
        \A x \in 0..(W - 1), y \in 0..(H - 1), k \in WrapCounts :
            last.arg = WrappedBy[x, y, k] => position = <<x, y>>

\* The position set was (5 + W*k, 3 + H*k) for the largest k that fits.
C16_Witness ==
    /\ last.op = "update_position"
    /\ last.arg = Wrapped(5, 3, TopWraps)
    /\ last.pre_position # <<5, 3>>
    /\ position = <<5, 3>>

\* The cells of a layout that hold a key.
CellsOf(keyboard_layout, key) ==
    {p \in (0..(W - 1)) \X (0..(H - 1)) : keyboard_layout[p[2] + 1][p[1] + 1] = key}

\* p comes no later than q in row-major order.
RowMajorBefore(p, q) == p[2] < q[2] \/ (p[2] = q[2] /\ p[1] <= q[1])

IsFirstCell(keyboard_layout, key, p) ==
    /\ p \in CellsOf(keyboard_layout, key)
    /\ \A q \in CellsOf(keyboard_layout, key) : RowMajorBefore(p, q)

\* C17: find_position returns the first cell holding the key in row-major
\* order, also when several cells hold it, and not-found exactly when no cell
\* holds it; the map the first loop of generate_instructions builds has
\* exactly the characters of the text that are on the layout, each with the
\* position a fresh lookup returns.
C17_FirstOccurrence ==
    /\ last.op = "find_position" =>
        LET keyboard_layout == last.arg[1]
            key == last.arg[2]
        IN /\ last.ret.ok <=> CellsOf(keyboard_layout, key) # {}
           /\ last.ret.ok => IsFirstCell(keyboard_layout, key, last.ret.val)
    /\ last.op = "char_positions" =>
        LET keyboard_layout == last.arg[1]
            text == last.arg[2]
            map == last.ret
        IN /\ DOMAIN map \subseteq {text[j] : j \in 1..Len(text)}
           /\ \A i \in 1..Len(text) :
                /\ text[i] \in DOMAIN map <=> CellsOf(keyboard_layout, text[i]) # {}
                /\ text[i] \in DOMAIN map =>
                    /\ IsFirstCell(keyboard_layout, text[i], map[text[i]])
                    /\ Ok(map[text[i]]) = find_position(keyboard_layout, text[i])

\* G is in (9, 0) and in (4, 2): the lookup returned (9, 0), the first in
\* row-major order though not the leftmost.
C17_Witness ==
    /\ last.op = "find_position"
    /\ last.arg[2] = "G"
    /\ CellsOf(last.arg[1], "G") = {<<9, 0>>, <<4, 2>>}
    /\ last.ret = Ok(<<9, 0>>)

\* Every move of the tokens, taken in order from pos, has a count of at least
\* one, subtracts no more than the coordinate it moves, and adds no more than
\* keeps the coordinate on the grid.
RECURSIVE MovesStayInside(_, _)
MovesStayInside(tokens, pos) ==
    IF tokens = <<>> THEN TRUE
    ELSE LET i == From(Head(tokens))
             rest == Tail(tokens)
         IN IF i.kind \notin MoveKinds THEN MovesStayInside(rest, pos)
            ELSE /\ ~BigLess(i.count, <<1>>)
                 /\ CASE i.kind = "Left" ->
                            /\ ~BigLess(pos[1], i.count)
                            /\ MovesStayInside(rest, <<BigSub(pos[1], i.count), pos[2]>>)
                      [] i.kind = "Up" ->
                            /\ ~BigLess(pos[2], i.count)
                            /\ MovesStayInside(rest, <<pos[1], BigSub(pos[2], i.count)>>)
                      [] i.kind = "Right" ->
                            /\ BigLess(BigAdd(pos[1], i.count), ToBig(W))
                            /\ MovesStayInside(rest, <<BigAdd(pos[1], i.count), pos[2]>>)
                      [] i.kind = "Down" ->
                            /\ BigLess(BigAdd(pos[2], i.count), ToBig(H))
                            /\ MovesStayInside(rest, <<pos[1], BigAdd(pos[2], i.count)>>)

\* C18: from an in-range start, every L:n or U:n that generate_instructions
\* emits has 1 <= n <= the coordinate of the simulated position at that
\* point, and every R:n or D:n has n >= 1 and lands on the grid without
\* wrapping; so the run of the synthesized instructions does not fail.
C18_MovesStayInside ==
    /\ (last.op \in {"generate_instructions", "generate_and_run"} /\ InRange(last.pre_position))
        => MovesStayInside(Split(last.ret),
                           <<ToBig(last.pre_position[1]), ToBig(last.pre_position[2])>>)
    /\ (last.op = "generate_and_run" /\ InRange(last.pre_position)) => ~panicked

\* From (0, 0), "? 1?" crosses the whole grid there, back and there again.
C18_Witness ==
    /\ last.op = "generate_instructions"
    /\ last.pre_position = <<0, 0>>
    /\ last.arg = <<"?", " ", "1", "?">>
    /\ last.ret = Join(<<<<"R", ":", "9">>, <<"D", ":", "3">>, <<"S">>, <<"_">>,
                         <<"L", ":", "9">>, <<"U", ":", "3">>, <<"S">>,
                         <<"R", ":", "9">>, <<"D", ":", "3">>, <<"S">>>>)

\* C19: generate_instructions leaves the session as it was: the position and
\* the output buffer after the call are those before it, for every text, and
\* the call does not fail.
C19_SynthesisKeepsSession ==
    last.op = "generate_instructions" =>
        /\ position = last.pre_position
        /\ selected_keys = last.pre_keys
        /\ ~panicked

\* HELLO was synthesized on a session with output in its buffer.
C19_Witness ==
    /\ last.op = "generate_instructions"
    /\ last.arg = HELLO
    /\ last.ret # <<>>
    /\ last.pre_keys # <<>>
    /\ selected_keys = last.pre_keys
    /\ position = last.pre_position

\* C20: run(a) followed by run(b) leaves the position and the output buffer
\* that one run of a + "," + b leaves from the state before run(a), and the
\* buffer after run(a) is a prefix of the buffer after run(b).
C20_RunsCompose ==
    [][(last.op = "run" /\ last'.op = "run" /\ calls' = calls + 1) =>
            LET kb == run(Keyboard(last.pre_position, last.pre_keys),
                          last.arg \o <<",">> \o last'.arg, overflow_checks)
            IN /\ position' = kb.position
               /\ selected_keys' = kb.selected_keys
               /\ panicked' = kb.panicked
               /\ IsPrefix(selected_keys, selected_keys')]_vars

\* A second run, "_:5", has appended a space to the "G" of the first.
C20_Witness ==
    /\ last.op = "run"
    /\ last.arg = <<"_", ":", "5">>
    /\ last.pre_keys = <<"G">>
    /\ selected_keys = <<"G", " ">>
    /\ calls = 2

====
